---- MODULE Spec2Model ----
(***************************************************************************)
(* Model of @atsjj/env: Env (src/unnamed/part_000) and NodeEnv             *)
(* (src/lib/node-env.ts).                                                  *)
(*                                                                         *)
(* A JavaScript string is a sequence of one-character strings, so that     *)
(* split, join and toUpperCase are computed character by character.  The   *)
(* characters are those of Basic Latin and Latin-1 (see UpperChar).        *)
(* A JavaScript value is a record tagged by its type:                      *)
(*   [t |-> "undefined"], [t |-> "string", s |-> <chars>],                 *)
(*   [t |-> "object", props |-> <function from property name to value>].   *)
(***************************************************************************)
EXTENDS Naturals, Sequences, FiniteSets, TLC

VARIABLES
    processEnv,   \* the host's process.env object (read by NodeEnv only)
    options,      \* the argument given to the constructor of `resolver`
    resolver,     \* the resolver built by `new Env(options)` / `new NodeEnv(options)`
    derived,      \* the resolver returned by the latest with(), or NoResolver
    call          \* the latest call: operation, receiver, arguments, outcome

vars == <<processEnv, options, resolver, derived, call>>

(***************************************************************************)
(* Bounds of the model.                                                    *)
(***************************************************************************)
MaxBindings == 2   \* at most this many keys bound in an environment object
MaxLen == 2        \* length of the enumerated prefix/namespace/target strings

(***************************************************************************)
(* JavaScript values.                                                      *)
(***************************************************************************)
Undefined == [t |-> "undefined"]
Str(s) == [t |-> "string", s |-> s]
Obj(props) == [t |-> "object", props |-> props]
EmptyProps == [k \in {} |-> Undefined]

\* o[name] for a property name: an own property of an object, undefined on
\* anything else (a string has none of the names read here).
GetProp(o, name) ==
    IF o.t = "object" /\ name \in DOMAIN o.props THEN o.props[name] ELSE Undefined

\* `name = dflt` in a destructuring pattern: the default replaces undefined only.
OrDefault(v, dflt) == IF v = Undefined THEN dflt ELSE v

\* if (v): undefined and the empty string are falsy.
Truthy(v) == \/ v.t = "object"
             \/ v.t = "string" /\ v.s # <<>>

(***************************************************************************)
(* String.prototype.split(/[_\.]/), Array.prototype.join,                  *)
(* String.prototype.toUpperCase.                                           *)
(***************************************************************************)
NamespacePattern == {"_", "."}

\* The letters of Basic Latin and Latin-1 that toUpperCase changes one for
\* one into a letter of Latin-1, with that letter at the same index.
LowerCase == <<"a","b","c","d","e","f","g","h","i","j","k","l","m",
              "n","o","p","q","r","s","t","u","v","w","x","y","z",
              "à","á","â","ã","ä","å","æ","ç","è","é","ê","ë","ì",
              "í","î","ï","ð","ñ","ò","ó","ô","õ","ö","ø","ù","ú",
              "û","ü","ý","þ">>
UpperCase == <<"A","B","C","D","E","F","G","H","I","J","K","L","M",
              "N","O","P","Q","R","S","T","U","V","W","X","Y","Z",
              "À","Á","Â","Ã","Ä","Å","Æ","Ç","È","É","Ê","Ë","Ì",
              "Í","Î","Ï","Ð","Ñ","Ò","Ó","Ô","Õ","Ö","Ø","Ù","Ú",
              "Û","Ü","Ý","Þ">>

\* The upper-case letter of each of these lower-case letters.
UpperOf ==
    [c \in {LowerCase[i] : i \in DOMAIN LowerCase} |->
        UpperCase[CHOOSE i \in DOMAIN LowerCase : LowerCase[i] = c]]

\* Characters that toUpperCase leaves as they are: the upper-case letters
\* of Basic Latin and Latin-1, the digits, and the space, hyphen, full stop
\* and underscore.
Unchanged == {" ","-",".","_","0","1","2","3","4","5","6","7","8",
              "9","A","B","C","D","E","F","G","H","I","J","K","L",
              "M","N","O","P","Q","R","S","T","U","V","W","X","Y",
              "Z","À","Á","Â","Ã","Ä","Å","Æ","Ç","È","É","Ê","Ë",
              "Ì","Í","Î","Ï","Ð","Ñ","Ò","Ó","Ô","Õ","Ö","Ø","Ù",
              "Ú","Û","Ü","Ý","Þ"}

\* The upper case of one character: a letter's upper-case letter, "SS" for
\* the sharp s, the character itself when toUpperCase leaves it.  The
\* alphabet of the model is LowerCase, the sharp s and Unchanged; a
\* character outside it (other punctuation, the y with diaeresis and the
\* micro sign, whose upper case is not in Latin-1, another script) has no
\* value here.
UpperChar(c) ==
    IF c \in DOMAIN UpperOf THEN <<UpperOf[c]>>
    ELSE IF c = "ß" THEN <<"S", "S">>
    ELSE IF c \in Unchanged THEN <<c>>
    ELSE <<UpperOf[c]>>

\* s.toUpperCase(): the upper cases of the characters, in order; the result
\* is longer than s where a character has a two-letter upper case.
RECURSIVE ToUpperCase(_)
ToUpperCase(s) ==
    IF s = <<>> THEN <<>> ELSE UpperChar(Head(s)) \o ToUpperCase(Tail(s))

RECURSIVE NonEmptyPieces(_)
NonEmptyPieces(s) ==
    IF s = <<>> THEN <<>>
    ELSE IF \A i \in 1..Len(s) : s[i] \notin NamespacePattern THEN <<s>>
    ELSE LET i == CHOOSE j \in 1..Len(s) :
                     /\ s[j] \in NamespacePattern
                     /\ \A h \in 1..(j - 1) : s[h] \notin NamespacePattern
             head == SubSeq(s, 1, i - 1)
         IN  (IF head = <<>> THEN <<>> ELSE <<head>>)
                 \o NonEmptyPieces(SubSeq(s, i + 1, Len(s)))

SplitDropEmpty(s) == IF s = <<>> THEN <<s>> ELSE NonEmptyPieces(s)

\* s.split(NamespacePattern): cut at every '_' and '.', empty pieces kept;
\* a string without a delimiter (the empty string too) is its own single piece.
RECURSIVE Split(_)
Split(s) ==
    IF \A i \in 1..Len(s) : s[i] \notin NamespacePattern
    THEN <<s>>
    ELSE LET i == CHOOSE j \in 1..Len(s) :
                     /\ s[j] \in NamespacePattern
                     /\ \A h \in 1..(j - 1) : s[h] \notin NamespacePattern
         IN  <<SubSeq(s, 1, i - 1)>> \o Split(SubSeq(s, i + 1, Len(s)))

\* parts.join(sep): the empty array joins to the empty string.
RECURSIVE Join(_, _)
Join(parts, sep) ==
    IF parts = <<>> THEN <<>>
    ELSE IF Len(parts) = 1 THEN parts[1]
    ELSE parts[1] \o sep \o Join(Tail(parts), sep)

(***************************************************************************)
(* Program constants.                                                      *)
(***************************************************************************)
DefaultEnvironment == Obj(EmptyProps)
DefaultNamespace == Str(<<>>)
DefaultPrefix == Str(<<>>)
DefaultTarget == Str(<<"d","e","v","e","l","o","p","m","e","n","t">>)

\* The option names the constructor destructures, and NODE_ENV.
NameEnvironment == <<"e","n","v","i","r","o","n","m","e","n","t">>
NameNamespace == <<"n","a","m","e","s","p","a","c","e">>
NamePrefix == <<"p","r","e","f","i","x">>
NameTarget == <<"t","a","r","g","e","t">>
NameNodeEnv == <<"N","O","D","E","_","E","N","V">>

(***************************************************************************)
(* Outcomes of a call.                                                     *)
(***************************************************************************)
Return(v) == [kind |-> "return", value |-> v]
Throw(e) == [kind |-> "throw", error |-> e]

\* super(`${keys.join(' or ')} must be provided.`)
Message(keys) ==
    Join(keys, <<" ", "o", "r", " ">>) \o
        <<" ","m","u","s","t"," ","b","e"," ","p","r","o","v","i","d","e","d",".">>

MissingEnvironmentKeyError(keys) ==
    [name |-> "MissingEnvironmentKeyError", message |-> Message(keys)]

\* Reflect.has on a target that is not an object.
TypeError ==
    [name |-> "TypeError",
     message |-> <<"R","e","f","l","e","c","t",".","h","a","s"," ","c","a","l","l",
                  "e","d"," ","o","n"," ","n","o","n","-","o","b","j","e","c","t">>]

(***************************************************************************)
(* Env: constructor and accessors.                                         *)
(***************************************************************************)
\* new Env(options): the four options, each with its default.
EnvConstructor(opts) ==
    [cls |-> "Env",
     environment |-> OrDefault(GetProp(opts, NameEnvironment), DefaultEnvironment),
     namespace |-> OrDefault(GetProp(opts, NameNamespace), DefaultNamespace),
     prefix |-> OrDefault(GetProp(opts, NamePrefix), DefaultPrefix),
     target |-> OrDefault(GetProp(opts, NameTarget), DefaultTarget)]

\* { ...opts, environment: e, target: t }
SpreadWith(opts, e, t) ==
    LET own == IF opts.t = "object" THEN opts.props ELSE EmptyProps
        names == DOMAIN own \cup {NameEnvironment, NameTarget}
    IN  Obj([n \in names |->
                IF n = NameEnvironment THEN e
                ELSE IF n = NameTarget THEN t
                ELSE own[n]])

\* { environment: e, target: t, ...opts }
SpreadUnder(opts, e, t) ==
    LET own == IF opts.t = "object" THEN opts.props ELSE EmptyProps
        names == DOMAIN own \cup {NameEnvironment, NameTarget}
    IN  Obj([n \in names |->
                IF n \in DOMAIN own THEN own[n]
                ELSE IF n = NameEnvironment THEN e
                ELSE t])

NodeEnvConstructorOptionsWin(opts, penv) ==
    LET target == OrDefault(GetProp(penv, NameNodeEnv), DefaultTarget)
    IN  [EnvConstructor(SpreadUnder(opts, penv, target)) EXCEPT !.cls = "NodeEnv"]

\* new NodeEnv(options): environment and target come from process.env.
NodeEnvConstructor(opts, penv) ==
    LET target == OrDefault(GetProp(penv, NameNodeEnv), DefaultTarget)
    IN  [EnvConstructor(SpreadWith(opts, penv, target)) EXCEPT !.cls = "NodeEnv"]

\* Reflect.construct(ctor, args): the constructors take one parameter, so
\* only args[1] is read.
Construct(cls, args, penv) ==
    LET opts == IF Len(args) >= 1 THEN args[1] ELSE Undefined
    IN  IF cls = "NodeEnv" THEN NodeEnvConstructor(opts, penv) ELSE EnvConstructor(opts)

prefixes(r) == Split(r.prefix.s)
namespaces(r) == Split(r.namespace.s)
targets(r) == Split(r.target.s)
keysFor(key) == Split(key)

UpperJoin(parts) == ToUpperCase(Join(parts, <<"_">>))

withPrefixesNamespacesTargetsKeyFor(r, keys) ==
    UpperJoin(prefixes(r) \o namespaces(r) \o targets(r) \o keys)
withNamespacesTargetsKeyFor(r, keys) == UpperJoin(namespaces(r) \o targets(r) \o keys)
withPrefixesNamespacesKeyFor(r, keys) == UpperJoin(prefixes(r) \o namespaces(r) \o keys)
withNamespacesKeyFor(r, keys) == UpperJoin(namespaces(r) \o keys)
withPrefixesKeyFor(r, keys) == UpperJoin(prefixes(r) \o keys)
withKeyFor(r, keys) == UpperJoin(keys)

fetchKeysForSwapped(r, keys) ==
    <<withPrefixesNamespacesTargetsKeyFor(r, keys),
      withPrefixesNamespacesKeyFor(r, keys),
      withNamespacesTargetsKeyFor(r, keys),
      withNamespacesKeyFor(r, keys),
      withPrefixesKeyFor(r, keys),
      withKeyFor(r, keys)>>

fetchKeysFor(r, keys) ==
    <<withPrefixesNamespacesTargetsKeyFor(r, keys),
      withNamespacesTargetsKeyFor(r, keys),
      withPrefixesNamespacesKeyFor(r, keys),
      withNamespacesKeyFor(r, keys),
      withPrefixesKeyFor(r, keys),
      withKeyFor(r, keys)>>

(***************************************************************************)
(* Env: lookup.  Every candidate key is upper-cased, and no property that  *)
(* a plain object inherits has an upper-cased name, so Reflect.has and     *)
(* Reflect.get see own properties only.  They are called on an object      *)
(* here; fetch handles the TypeError of a target that is not one.          *)
(***************************************************************************)
hasTruthy(r, key) ==
    /\ key \in DOMAIN r.environment.props
    /\ Truthy(r.environment.props[key])

has(r, key) == key \in DOMAIN r.environment.props

some(r, keys) == \E i \in DOMAIN keys : has(r, keys[i])

\* keys.find(has): the first key that has() accepts (called when some() holds).
find(r, keys) ==
    keys[CHOOSE i \in DOMAIN keys :
            /\ has(r, keys[i])
            /\ \A j \in DOMAIN keys : j < i => ~has(r, keys[j])]

get(r, key) == GetProp(r.environment, key)

fetch(r, keys) ==
    IF r.environment.t # "object" THEN Throw(TypeError)
    ELSE IF some(r, keys) THEN Return(get(r, find(r, keys)))
    ELSE Throw(MissingEnvironmentKeyError(keys))

required(r, key) == fetch(r, fetchKeysFor(r, keysFor(key)))

\* try { return this.required(key) } catch (error) { ... }
optional(r, key, defaultValue) ==
    LET res == required(r, key)
    IN  IF res.kind = "return" THEN res
        ELSE IF Truthy(defaultValue) THEN Return(defaultValue)
        ELSE res

\* with(target): the constructor of this's class, called with four
\* positional arguments.
with(r, target, penv) ==
    Construct(r.cls, <<r.environment, r.prefix, r.namespace, Str(target)>>, penv)

(***************************************************************************)
(* Inputs.                                                                 *)
(***************************************************************************)
S_P_T_U == <<"S","_","P","_","T","_","U">>
P_T_U == <<"P","_","T","_","U">>
S_P_U == <<"S","_","P","_","U">>
P_U == <<"P","_","U">>
S_U == <<"S","_","U">>
U == <<"U">>

\* Names an environment given to Env may bind: the six candidates of
\* (prefix "s", namespace "p", target "t", key "u").
EnvKeys == {S_P_T_U, P_T_U, S_P_U, P_U, S_U, U}

\* The candidates of (prefix "é", namespace "ß", target "t", key "u") that
\* leave the target out.
E_SS_U == <<"É","_","S","S","_","U">>
SS_U == <<"S","S","_","U">>
E_U == <<"É","_","U">>
LatinKeys == {E_SS_U, SS_U, E_U}

\* Names of an environment that binds option names.
OptionKeys == {U, NameTarget, NameEnvironment}

\* Names process.env may bind.
NodeKeys == {NameNodeEnv, P_U, U, NamePrefix}

\* What an Environment may bind a name to: string | undefined.
EnvValues == {Str(<<>>), Str(<<"a">>), Undefined}

\* What process.env binds a name to: always a string.
NodeValues == {Str(<<>>), Str(<<"a">>)}

\* The objects binding at most n of `keys` to `values`.
Objects(keys, values, n) ==
    {Obj(f) : f \in UNION {[D -> values] :
                              D \in {D \in SUBSET keys : Cardinality(D) <= n}}}

\* An options object: a property that is undefined is left out.
MkOptions(e, pfx, ns, tgt) ==
    LET all == [n \in {NameEnvironment, NamePrefix, NameNamespace, NameTarget} |->
                   IF n = NameEnvironment THEN e
                   ELSE IF n = NamePrefix THEN pfx
                   ELSE IF n = NameNamespace THEN ns
                   ELSE tgt]
    IN  Obj([n \in {m \in DOMAIN all : all[m] # Undefined} |-> all[n]])

WideAlphabet == {"a", "_", "."}

RECURSIVE Strings(_)
Strings(n) ==
    IF n = 0 THEN {<<>>}
    ELSE LET shorter == Strings(n - 1)
         IN  shorter \cup {Append(x, c) : x \in shorter, c \in WideAlphabet}

SmallStrings == {<<>>, <<"B">>}

\* (prefix, namespace, target): one of the three drawn from Strings(MaxLen)
\* beside two fixed ones, and every combination of the small strings.
WideConfigs ==
    LET W == Strings(MaxLen)
    IN  (W \X {<<"B">>} \X {<<>>})
            \cup ({<<>>} \X W \X {<<"B">>})
            \cup ({<<"B">>} \X {<<>>} \X W)
            \cup (SmallStrings \X SmallStrings \X SmallStrings)

KeySet == {<<"u">>, <<"p", ".", "u">>, <<>>}
DefaultSet == {Undefined, Str(<<>>), Str(<<"d">>)}
TargetSet == {<<"x">>, <<"t">>}
Receivers == {"resolver", "derived"}

NoResolver == [cls |-> "none"]
NoCall == [op |-> "none"]

(***************************************************************************)
(* Initial states: a resolver just constructed.                            *)
(***************************************************************************)
\* new Env({ environment, prefix: "s", namespace: "p", target: "t" }),
\* new Env({ environment, prefix: "é", namespace: "ß", target: "t" }),
\* new Env({ environment }) and new Env({}).
InitEnv ==
    /\ processEnv = Obj(EmptyProps)
    /\ \/ \E e \in Objects(EnvKeys, EnvValues, MaxBindings) :
             options = MkOptions(e, Str(<<"s">>), Str(<<"p">>), Str(<<"t">>))
       \/ \E e \in Objects(LatinKeys, EnvValues, MaxBindings) :
             options = MkOptions(e, Str(<<"é">>), Str(<<"ß">>), Str(<<"t">>))
       \/ \E e \in Objects(OptionKeys, EnvValues, MaxBindings) :
             options = MkOptions(e, Undefined, Undefined, Undefined)
       \/ options = Obj(EmptyProps)
    /\ resolver = Construct("Env", <<options>>, processEnv)

\* new Env({ environment: { U: "a" }, prefix, namespace, target }) over the
\* enumerated strings.
InitWide ==
    /\ processEnv = Obj(EmptyProps)
    /\ \E c \in WideConfigs :
           options = MkOptions(Obj(U :> Str(<<"a">>)), Str(c[1]), Str(c[2]), Str(c[3]))
    /\ resolver = Construct("Env", <<options>>, processEnv)

\* new NodeEnv({ namespace: "p" }) and
\* new NodeEnv({ environment: { U: "b" }, prefix: "s", namespace: "p", target: "t" })
\* under a process.env.
InitNode ==
    /\ processEnv \in Objects(NodeKeys, NodeValues, MaxBindings)
    /\ \/ options = MkOptions(Undefined, Undefined, Str(<<"p">>), Undefined)
       \/ options = MkOptions(Obj(U :> Str(<<"b">>)), Str(<<"s">>), Str(<<"p">>),
                              Str(<<"t">>))
    /\ resolver = Construct("NodeEnv", <<options>>, processEnv)

Init ==
    /\ InitEnv \/ InitWide \/ InitNode
    /\ derived = NoResolver
    /\ call = NoCall

(***************************************************************************)
(* Calls.                                                                  *)
(***************************************************************************)
This(on) == IF on = "resolver" THEN resolver ELSE derived

Called(op, this, arg, defaultValue, result) ==
    [op |-> op, this |-> this, arg |-> arg,
     defaultValue |-> defaultValue, result |-> result]

Required(on, key) ==
    LET this == This(on)
    IN  /\ this # NoResolver
        /\ call' = Called("required", this, key, Undefined, required(this, key))
        /\ UNCHANGED <<processEnv, options, resolver, derived>>

Optional(on, key, defaultValue) ==
    LET this == This(on)
    IN  /\ this # NoResolver
        /\ call' = Called("optional", this, key, defaultValue,
                          optional(this, key, defaultValue))
        /\ UNCHANGED <<processEnv, options, resolver, derived>>

WithInPlace(on, target) ==
    LET this == This(on)
    IN  /\ this # NoResolver
        /\ resolver' = [resolver EXCEPT !.target = Str(target)]
        /\ derived' = resolver'
        /\ call' = Called("with", this, target, Undefined, Return(derived'))
        /\ UNCHANGED <<processEnv, options>>

With(on, target) ==
    LET this == This(on)
    IN  /\ this # NoResolver
        /\ derived' = with(this, target, processEnv)
        /\ call' = Called("with", this, target, Undefined, Return(derived'))
        /\ UNCHANGED <<processEnv, options, resolver>>

Next ==
    \/ \E on \in Receivers, key \in KeySet : Required(on, key)
    \/ \E on \in Receivers, key \in KeySet, d \in DefaultSet : Optional(on, key, d)
    \/ \E on \in Receivers, target \in TargetSet : With(on, target)

Spec == Init /\ [][Next]_vars

(***************************************************************************)
(* What the claims are stated with.                                        *)
(***************************************************************************)
IsQuery == call.op \in {"required", "optional"}

\* The receiver of the latest call reads a mapping (an Environment object).
OnMapping == call.this.environment.t = "object"

Bindings == call.this.environment.props

\* UPPER(join_(segments))
UPPER_JOIN(segs) == ToUpperCase(Join(segs, <<"_">>))

\* The six candidates of prefix P, namespace N, target T and key K, most
\* specific first.
Candidates(P, N, T, K) ==
    LET Pseg == Split(P)
        Nseg == Split(N)
        Tseg == Split(T)
        Kseg == Split(K)
    IN  <<UPPER_JOIN(Pseg \o Nseg \o Tseg \o Kseg),
          UPPER_JOIN(Nseg \o Tseg \o Kseg),
          UPPER_JOIN(Pseg \o Nseg \o Kseg),
          UPPER_JOIN(Nseg \o Kseg),
          UPPER_JOIN(Pseg \o Kseg),
          UPPER_JOIN(Kseg)>>

\* The candidates of the latest query, from the receiver's configuration.
Cand == Candidates(call.this.prefix.s, call.this.namespace.s, call.this.target.s,
                   call.arg)

\* The indices of the candidates that are keys of the receiver's environment.
PresentIn(cand) == {i \in 1..6 : cand[i] \in DOMAIN Bindings}

\* The indices of the candidates the receiver's environment binds to a
\* value: a key bound to undefined is not present.
BoundIn(cand) == {i \in PresentIn(cand) : Bindings[cand[i]] # Undefined}

Lowest(indices) == CHOOSE i \in indices : \A j \in indices : i <= j

Or == <<" ","o","r"," ">>
MustBeProvided == <<" ","m","u","s","t"," ","b","e"," ","p","r","o","v","i","d","e","d",".">>

\* "<k1> or <k2> or <k3> or <k4> or <k5> or <k6> must be provided."
MissingKey(keys) ==
    [name |-> "MissingEnvironmentKeyError",
     message |-> keys[1] \o Or \o keys[2] \o Or \o keys[3] \o Or \o keys[4] \o Or
                     \o keys[5] \o Or \o keys[6] \o MustBeProvided]

Development == <<"d","e","v","e","l","o","p","m","e","n","t">>

(***************************************************************************)
(* C1. For every key and every configuration, empty prefix, namespace or   *)
(* target included, fetchKeysFor(keysFor(K)) has exactly six entries:      *)
(* P+N+T+K, N+T+K, P+N+K, N+K, P+K, K, each joined with "_" and            *)
(* upper-cased, in this order.                                             *)
(***************************************************************************)
C1_CandidateOrder ==
    IsQuery =>
        LET keys == fetchKeysFor(call.this, keysFor(call.arg))
            config == <<call.this.prefix.s, call.this.namespace.s,
                        call.this.target.s, call.arg>>
        IN  /\ Len(keys) = 6
            /\ keys = Cand
            /\ config = <<<<"s">>, <<"p">>, <<"t">>, <<"u">>>> =>
                   keys = <<S_P_T_U, P_T_U, S_P_U, P_U, S_U, U>>
            /\ config = <<<<"é">>, <<"ß">>, <<"t">>, <<"u">>>> =>
                   keys = <<<<"É","_","S","S","_","T","_","U">>,
                            <<"S","S","_","T","_","U">>, E_SS_U, SS_U, E_U, U>>

\* required("u") with prefix, namespace and target all empty: every empty
\* segment is kept in the joins.
C1_Witness ==
    /\ call.op = "required"
    /\ call.arg = <<"u">>
    /\ call.this.prefix = Str(<<>>)
    /\ call.this.namespace = Str(<<>>)
    /\ call.this.target = Str(<<>>)
    /\ fetchKeysFor(call.this, keysFor(call.arg))
           = <<<<"_","_","_","U">>, <<"_","_","U">>, <<"_","_","U">>, <<"_","U">>, <<"_","U">>, <<"U">>>>

(***************************************************************************)
(* C2. When at least one candidate key is present, required(key) returns   *)
(* the value bound to the present candidate of lowest index, also when a   *)
(* later candidate is present with another value.  Present: a key of the   *)
(* environment mapping that is not bound to undefined.                     *)
(***************************************************************************)
C2_FirstPresentWins ==
    (call.op = "required" /\ OnMapping) =>
        LET cand == Cand
            present == BoundIn(cand)
        IN  present # {} => call.result = Return(Bindings[cand[Lowest(present)]])

(***************************************************************************)
(* C3. with(newTarget) returns a resolver with the receiver's environment, *)
(* prefix and namespace and with target newTarget, so its required(key)    *)
(* searches the candidates of (P, N, newTarget) in E.                      *)
(***************************************************************************)
C3_WithReplacesTarget ==
    call.op = "with" =>
        LET made == call.result.value
        IN  /\ made.environment = call.this.environment
            /\ made.prefix = call.this.prefix
            /\ made.namespace = call.this.namespace
            /\ made.target = Str(call.arg)
            /\ \A key \in KeySet :
                   fetchKeysFor(made, keysFor(key))
                       = Candidates(call.this.prefix.s, call.this.namespace.s,
                                    call.arg, key)

(***************************************************************************)
(* C4. A candidate bound to undefined is treated as not present: required  *)
(* skips it, fails with MissingKey when no other candidate is present, and *)
(* never returns undefined.                                                *)
(***************************************************************************)
C4_UndefinedIsAbsent ==
    (call.op = "required" /\ OnMapping) =>
        LET cand == Cand
            defined == {i \in PresentIn(cand) : Bindings[cand[i]] # Undefined}
        IN  /\ call.result # Return(Undefined)
            /\ IF defined # {}
               THEN call.result = Return(Bindings[cand[Lowest(defined)]])
               ELSE call.result = Throw(MissingKey(cand))

(***************************************************************************)
(* C5. required(key) fails with MissingKey exactly when none of the six    *)
(* candidates is present, and the message is the six candidate names in    *)
(* candidate order joined with " or ", then " must be provided.".          *)
(* Present: a key of the environment mapping that is not bound to          *)
(* undefined.                                                              *)
(***************************************************************************)
C5_MissingKeyWhenNonePresent ==
    (call.op = "required" /\ OnMapping) =>
        LET cand == Cand
        IN  /\ call.result.kind = "throw" <=> BoundIn(cand) = {}
            /\ call.result.kind = "throw" => call.result.error = MissingKey(cand)

(***************************************************************************)
(* C6. When no candidate is present, optional(key, defaultValue) returns   *)
(* defaultValue if it is a non-empty string, and otherwise (omitted or     *)
(* empty) re-raises the MissingKey failure of required(key), unchanged;    *)
(* there is no other outcome.  Present: a key of the environment mapping   *)
(* that is not bound to undefined.                                         *)
(***************************************************************************)
C6_OptionalDefault ==
    (call.op = "optional" /\ OnMapping) =>
        LET cand == Cand
        IN  BoundIn(cand) = {} =>
                IF call.defaultValue.t = "string" /\ call.defaultValue.s # <<>>
                THEN call.result = Return(call.defaultValue)
                ELSE /\ call.result = Throw(MissingKey(cand))
                     /\ call.result = required(call.this, call.arg)

(***************************************************************************)
(* C7. Presence is key existence: when the first present candidate is      *)
(* bound to "", required returns "" and optional returns "" for every      *)
(* default; whenever a candidate is present, optional(key, d) is           *)
(* required(key).                                                          *)
(***************************************************************************)
C7_PresenceIsExistence ==
    (IsQuery /\ OnMapping) =>
        LET cand == Cand
            present == PresentIn(cand)
        IN  present # {} =>
                /\ Bindings[cand[Lowest(present)]] = Str(<<>>)
                       => call.result = Return(Str(<<>>))
                /\ call.op = "optional" => call.result = required(call.this, call.arg)

\* { S_P_U: "", U: "a" }: optional("u", "d") is "", not "a" and not "d".
C7_Witness ==
    /\ call.op = "optional"
    /\ call.arg = <<"u">>
    /\ call.defaultValue = Str(<<"d">>)
    /\ OnMapping
    /\ Bindings = (S_P_U :> Str(<<>>) @@ U :> Str(<<"a">>))
    /\ call.result = Return(Str(<<>>))

(***************************************************************************)
(* C8. No call changes the environment's bindings or the resolver's        *)
(* environment, prefix, namespace and target; after with(newTarget) the    *)
(* original resolver searches the candidates of its original target.       *)
(***************************************************************************)
C8_Frame ==
    [][/\ processEnv' = processEnv
       /\ options' = options
       /\ resolver' = resolver
       /\ call'.op # "with" => derived' = derived
       /\ call'.op = "with" =>
              \A key \in KeySet :
                  fetchKeysFor(resolver', keysFor(key))
                      = Candidates(resolver.prefix.s, resolver.namespace.s,
                                   resolver.target.s, key)]_vars

\* with("x") on a resolver built with target "t", which still has target "t".
C8_Witness ==
    /\ call.op = "with"
    /\ call.arg = <<"x">>
    /\ call.this = resolver
    /\ derived # NoResolver
    /\ resolver.target = Str(<<"t">>)
    /\ GetProp(options, NameTarget) = Str(<<"t">>)
    /\ resolver.environment = GetProp(options, NameEnvironment)

(***************************************************************************)
(* C9 as stated. Splitting yields non-empty tokens, except that the empty  *)
(* string yields exactly one empty segment.                                *)
(***************************************************************************)
\* Every string the program has split, with the segments it got.
Splits ==
    {<<resolver.prefix.s, prefixes(resolver)>>,
     <<resolver.namespace.s, namespaces(resolver)>>,
     <<resolver.target.s, targets(resolver)>>}
        \cup (IF IsQuery THEN {<<call.arg, keysFor(call.arg)>>} ELSE {})

C9_SegmentsNonEmpty ==
    \A x \in Splits :
        IF x[1] = <<>>
        THEN x[2] = <<<<>>>>
        ELSE /\ Len(x[2]) >= 1
             /\ \A i \in 1..Len(x[2]) : x[2][i] # <<>>

(***************************************************************************)
(* C9, amended. Splitting yields one more segment than the string has      *)
(* delimiters, none containing a delimiter, which joined with "_" give the *)
(* string with every "." replaced by "_"; a segment is empty exactly where *)
(* a delimiter leads, trails or follows another, and the empty string      *)
(* yields exactly one empty segment.                                       *)
(***************************************************************************)
IsDelimiter(c) == c = "_" \/ c = "."

C9_SegmentsKeepEmpty ==
    \A x \in Splits :
        LET str == x[1]
            segs == x[2]
            n == Len(str)
            delimiters == {i \in 1..n : IsDelimiter(str[i])}
        IN  /\ Len(segs) = Cardinality(delimiters) + 1
            /\ \A i \in 1..Len(segs) : \A j \in 1..Len(segs[i]) : ~IsDelimiter(segs[i][j])
            /\ Join(segs, <<"_">>) = [i \in 1..n |-> IF str[i] = "." THEN "_" ELSE str[i]]
            /\ str = <<>> => segs = <<<<>>>>
            /\ (\E i \in 1..Len(segs) : segs[i] = <<>>)
                   <=> \/ n = 0
                       \/ 1 \in delimiters
                       \/ n \in delimiters
                       \/ \E i \in 1..(n - 1) : i \in delimiters /\ (i + 1) \in delimiters

\* required("") on a resolver with prefix "_a": the prefix splits into ""
\* and "a", the key into one empty segment.
C9_Witness ==
    /\ call.op = "required"
    /\ call.arg = <<>>
    /\ keysFor(call.arg) = <<<<>>>>
    /\ resolver.prefix = Str(<<"_", "a">>)
    /\ prefixes(resolver) = <<<<>>, <<"a">>>>

(***************************************************************************)
(* C10. new NodeEnv(options) reads process.env as its environment and      *)
(* NODE_ENV, or "development" when NODE_ENV is unset, as its target,       *)
(* whatever environment or target the options give; prefix and namespace   *)
(* are the options'.                                                       *)
(***************************************************************************)
NodeEnvOf(made, opts) ==
    /\ made.environment = processEnv
    /\ made.target = (IF NameNodeEnv \in DOMAIN processEnv.props
                         /\ processEnv.props[NameNodeEnv] # Undefined
                      THEN processEnv.props[NameNodeEnv]
                      ELSE Str(Development))
    /\ made.prefix = (IF NamePrefix \in DOMAIN opts.props
                         /\ opts.props[NamePrefix] # Undefined
                      THEN opts.props[NamePrefix] ELSE Str(<<>>))
    /\ made.namespace = (IF NameNamespace \in DOMAIN opts.props
                            /\ opts.props[NameNamespace] # Undefined
                         THEN opts.props[NameNamespace] ELSE Str(<<>>))

C10_NodeEnv ==
    /\ resolver.cls = "NodeEnv" => NodeEnvOf(resolver, options)
    /\ (call.op = "with" /\ call.this.cls = "NodeEnv") =>
           NodeEnvOf(call.result.value, call.this.environment)

\* new NodeEnv({ environment: { U: "b" }, prefix: "s", namespace: "p",
\* target: "t" }) under a process.env with NODE_ENV = "a".
C10_Witness ==
    /\ resolver.cls = "NodeEnv"
    /\ GetProp(options, NameTarget) = Str(<<"t">>)
    /\ GetProp(options, NameEnvironment) = Obj(U :> Str(<<"b">>))
    /\ GetProp(processEnv, NameNodeEnv) = Str(<<"a">>)
    /\ resolver.target = Str(<<"a">>)
    /\ resolver.environment = processEnv
    /\ resolver.prefix = Str(<<"s">>)
    /\ call.op = "required"

====
